---- MODULE Spec2Model ----
(***************************************************************************)
(* Model of src/src/App.tsx: the App component of the real-time voice      *)
(* conversation UI.  The component state (useState hooks), the refs, the   *)
(* asynchronous function startConversation with each of its await points,  *)
(* stopConversation, the countdown effect, the data-channel handlers       *)
(* dc.onopen / dc.onmessage and the 2-second effect timeout are modelled   *)
(* as one state machine.  Every action is one run of a handler followed by *)
(* the re-render it causes (including the countdown effect's cleanup and   *)
(* set-up).                                                                *)
(***************************************************************************)
EXTENDS Integers, Sequences, FiniteSets, TLC

(* ------------------------------ constants ------------------------------ *)

\* App.tsx:4
CONVERSATION_DURATION == 60

(* -------------------------------- bounds -------------------------------- *)

\* startConversation invocations that may be unfinished or hold an open
\* connection at the same time
MaxSessions == 2

\* transcript lines kept
MaxTranscript == 2

\* image-effect timeouts pending at the same time
MaxTimeouts == 2

\* outbound messages logged per data channel
MaxSent == 7

Sessions == 1..MaxSessions

(* ----------------------------- program state ---------------------------- *)

VARIABLES
  aiState,          \* useState<AIState>
  timeRemaining,    \* useState(CONVERSATION_DURATION)
  isActive,         \* useState(false)
  transcript,       \* useState<string[]>
  imageEffect,      \* useState<'none'|'sparkle'|'heart'|'star'>
  pcRef,            \* useRef<RTCPeerConnection>: 0 is null, else the session whose pc it is
  dataChannelRef,   \* useRef<RTCDataChannel>:    0 is null, else the session whose dc it is
  audioElementRef,  \* useRef<HTMLAudioElement>:  0 is null, else the session whose element it is
  timerRef,         \* useRef<Timeout>: 0 is null, else an interval id (possibly already cleared)
  intervals,        \* browser: ids of the setInterval timers scheduled and not cleared
  timeouts,         \* browser: number of pending setTimeout callbacks of line 158
  step,             \* per startConversation invocation: the await it is suspended at
  pc,               \* per invocation: state of its RTCPeerConnection
  dc,               \* per invocation: state of its RTCDataChannel
  sent,             \* per invocation: messages passed to dc.send, oldest first
  event             \* the handler that ran in the last step, with what it was given and did

vars == <<aiState, timeRemaining, isActive, transcript, imageEffect, pcRef,
          dataChannelRef, audioElementRef, timerRef, intervals, timeouts,
          step, pc, dc, sent, event>>

\* The state as one value, so that handlers are functions from state to state.
Cur ==
  [aiState |-> aiState, timeRemaining |-> timeRemaining, isActive |-> isActive,
   transcript |-> transcript, imageEffect |-> imageEffect, pcRef |-> pcRef,
   dataChannelRef |-> dataChannelRef, audioElementRef |-> audioElementRef,
   timerRef |-> timerRef, intervals |-> intervals, timeouts |-> timeouts,
   step |-> step, pc |-> pc, dc |-> dc, sent |-> sent]

(* ------------------------------- messages ------------------------------- *)

\* A message passed to dc.send (after JSON.stringify).
Out(type, item, call_id, output) ==
  [type |-> type, item |-> item, call_id |-> call_id, output |-> output]

NoOut == Out("", "", "", "")

\* dc.onopen, lines 81-136
SessionUpdate == Out("session.update", "tools:add_effect_to_image", "", "")
OpeningItem   == Out("conversation.item.create", "message", "", "")
ResponseCreate == Out("response.create", "", "", "")

\* A side effect performed by a handler: a state setter call, a setTimeout or a dc.send.
Effect(op, val, msg) == [op |-> op, val |-> val, msg |-> msg]

NoIn == [data |-> "", type |-> "", transcript |-> "", name |-> "",
         arguments |-> "", call_id |-> ""]

\* The handler that ran in a step: which one (h), for which invocation of
\* startConversation (s, 0 when it is none in particular), the message it was
\* given and the side effects it performed.
Ev(h, s) == [h |-> h, s |-> s, msg |-> NoIn, effects |-> <<>>]

NoEvent == Ev("", 0)

(* ------------------------- rendering and effects ------------------------ *)

\* The id setInterval returns: one that no scheduled interval has.  (The id
\* a stale timerRef holds is as good as new: the ref is overwritten with the
\* returned id in the same effect run, line 22.)
FreshTimerId(c) ==
  CHOOSE i \in 1..(Cardinality(c.intervals) + 1) :
    /\ i \notin c.intervals
    /\ \A j \in 1..(i - 1) : j \in c.intervals

\* useEffectTimer as it would be if the effect returned no cleanup
useEffectTimer_NoCleanup(old, new) ==
  IF old.isActive = new.isActive /\ old.timeRemaining = new.timeRemaining
  THEN new
  ELSE IF new.isActive /\ new.timeRemaining > 0
       THEN LET id == FreshTimerId(new)
            IN  [new EXCEPT !.intervals = @ \union {id}, !.timerRef = id]
       ELSE new

\* useEffect(..., [isActive, timeRemaining]), lines 20-38: when a dependency
\* changed in the render from state old to state new, the previous effect's
\* cleanup runs (clearInterval of whatever timerRef holds now) and then the
\* effect body (a new interval while the session is active and time is left).
useEffectTimer(old, new) ==
  IF old.isActive = new.isActive /\ old.timeRemaining = new.timeRemaining
  THEN new
  ELSE LET cleaned == IF new.timerRef # 0
                      THEN [new EXCEPT !.intervals = @ \ {new.timerRef}]
                      ELSE new
       IN  IF cleaned.isActive /\ cleaned.timeRemaining > 0
           THEN LET id == FreshTimerId(cleaned)
                IN  [cleaned EXCEPT !.intervals = @ \union {id}, !.timerRef = id]
           ELSE cleaned

\* An invocation of startConversation that has finished and whose connection
\* is not open can no longer act or be acted on: its slot is free again.
Finished(c, s) == c.step[s] \in {"done", "failed"} /\ c.pc[s] # "open"

Recycle(c) ==
  [c EXCEPT
     !.step = [s \in Sessions |-> IF Finished(c, s) THEN "none" ELSE c.step[s]],
     !.pc   = [s \in Sessions |-> IF Finished(c, s) THEN "none" ELSE c.pc[s]],
     !.dc   = [s \in Sessions |-> IF Finished(c, s) THEN "none" ELSE c.dc[s]],
     !.sent = [s \in Sessions |-> IF Finished(c, s) THEN <<>> ELSE c.sent[s]]]

\* The state after a handler that took the component from Cur to n: React
\* applies the batched updates, re-renders and runs the effect.
Render(old, n) == Recycle(useEffectTimer(old, n))

Commit(n, ev) ==
  \E r \in {Render(Cur, n)} :
  /\ aiState' = r.aiState
  /\ timeRemaining' = r.timeRemaining
  /\ isActive' = r.isActive
  /\ transcript' = r.transcript
  /\ imageEffect' = r.imageEffect
  /\ pcRef' = r.pcRef
  /\ dataChannelRef' = r.dataChannelRef
  /\ audioElementRef' = r.audioElementRef
  /\ timerRef' = r.timerRef
  /\ intervals' = r.intervals
  /\ timeouts' = r.timeouts
  /\ step' = r.step
  /\ pc' = r.pc
  /\ dc' = r.dc
  /\ sent' = r.sent
  /\ event' = ev

(* ---------------------------- stopConversation -------------------------- *)

\* RTCPeerConnection.close(): the connection and its data channel are closed.
ClosePc(c, s) == [c EXCEPT !.pc[s] = "closed",
                           !.dc[s] = IF @ = "none" THEN "none" ELSE "closed"]

\* RTCDataChannel.close()
CloseDc(c, s) == [c EXCEPT !.dc[s] = "closed"]

\* stopConversation as it would be if it closed the data channel without
\* clearing dataChannelRef and left the countdown where it was
stopConversation_Partial(c) ==
  LET c1 == IF c.pcRef # 0
            THEN [ClosePc(c, c.pcRef) EXCEPT !.pcRef = 0]
            ELSE c
      c2 == IF c1.dataChannelRef # 0
            THEN CloseDc(c1, c1.dataChannelRef)
            ELSE c1
      c4 == IF c2.timerRef # 0
            THEN [c2 EXCEPT !.intervals = @ \ {c2.timerRef}, !.timerRef = 0]
            ELSE c2
  IN  [c4 EXCEPT !.aiState = "idle", !.isActive = FALSE, !.audioElementRef = 0]

\* lines 207-227
stopConversation(c) ==
  LET c1 == IF c.pcRef # 0
            THEN [ClosePc(c, c.pcRef) EXCEPT !.pcRef = 0]
            ELSE c
      c2 == IF c1.dataChannelRef # 0
            THEN [CloseDc(c1, c1.dataChannelRef) EXCEPT !.dataChannelRef = 0]
            ELSE c1
      c3 == IF c2.audioElementRef # 0
            THEN [c2 EXCEPT !.audioElementRef = 0]
            ELSE c2
      c4 == IF c3.timerRef # 0
            THEN [c3 EXCEPT !.intervals = @ \ {c3.timerRef}, !.timerRef = 0]
            ELSE c3
  IN  [c4 EXCEPT !.aiState = "idle", !.isActive = FALSE,
                 !.timeRemaining = CONVERSATION_DURATION]

(* --------------------------------- Init --------------------------------- *)

Init ==
  /\ aiState = "idle"
  /\ timeRemaining = CONVERSATION_DURATION
  /\ isActive = FALSE
  /\ transcript = <<>>
  /\ imageEffect = "none"
  /\ pcRef = 0
  /\ dataChannelRef = 0
  /\ audioElementRef = 0
  /\ timerRef = 0
  /\ intervals = {}
  /\ timeouts = 0
  /\ step = [s \in Sessions |-> "none"]
  /\ pc = [s \in Sessions |-> "none"]
  /\ dc = [s \in Sessions |-> "none"]
  /\ sent = [s \in Sessions |-> <<>>]
  /\ event = NoEvent

(* ------------------------------ the buttons ----------------------------- *)

\* Click on "Start Talking!" (rendered while !isActive, lines 347-354):
\* startConversation runs up to its first await (lines 41-53).  limit bounds
\* the invocations that are unfinished or hold an open connection.
StartClick(limit) ==
  /\ ~isActive
  /\ Cardinality({t \in Sessions : step[t] # "none"}) < limit
  /\ \E s \in Sessions :
       /\ step[s] = "none"
       /\ \A t \in 1..(s - 1) : step[t] # "none"
       /\ Commit([Cur EXCEPT !.aiState = "connecting", !.isActive = TRUE,
                             !.timeRemaining = CONVERSATION_DURATION,
                             !.transcript = <<>>, !.step[s] = "fetch"],
                 Ev("start", 0))

\* Click on "Stop" (rendered while isActive, lines 355-362)
StopClick ==
  /\ isActive
  /\ Commit(stopConversation(Cur), Ev("stop", 0))

(* ------------------------------- countdown ------------------------------ *)

\* The interval callback (lines 22-30).  The updater given to
\* setTimeRemaining calls stopConversation and returns 0 when prev <= 1.
\* stopConversation's own setTimeRemaining(CONVERSATION_DURATION) is then
\* queued from inside an updater, which React does not define an order for:
\* the committed value is the updater's 0 when React ran the updater eagerly
\* in the setter, and CONVERSATION_DURATION when it ran it while rendering.
TimerTick ==
  \E id \in intervals :
    IF timeRemaining <= 1
    THEN \E last \in {0, CONVERSATION_DURATION} :
           Commit([stopConversation(Cur) EXCEPT !.timeRemaining = last],
                  Ev("expire", 0))
    ELSE Commit([Cur EXCEPT !.timeRemaining = @ - 1], Ev("tick", 0))

(* --------------------------- startConversation -------------------------- *)

\* The awaits of startConversation, in order (lines 47, 55, 72, 182, 183,
\* 185, 196, 198).
Awaits == {"fetch", "json", "getUserMedia", "createOffer", "setLocalDescription",
           "fetchSdp", "text", "setRemoteDescription"}

\* Steps whose promise is an operation of the invocation's own peer
\* connection: it cannot succeed once that connection is closed.
NeedsOpenPc == {"createOffer", "setLocalDescription", "setRemoteDescription"}

\* catch as it would be without setIsActive(false)
catch_KeepsActive(c, s) ==
  [c EXCEPT !.aiState = "idle", !.step[s] = "failed"]

\* catch (error), lines 200-204
catch(c, s) ==
  [c EXCEPT !.aiState = "idle", !.isActive = FALSE, !.step[s] = "failed"]

\* The code that runs when the promise awaited at c.step[s] fulfils, up to the
\* next await.  ok is response.ok (line 57); secret is whether
\* data.client_secret is an object (line 185 reads .value of it).
resume(c, s, ok, secret) ==
  CASE c.step[s] = "fetch" -> [c EXCEPT !.step[s] = "json"]
    [] c.step[s] = "json" ->
         IF ~ok
         THEN catch(c, s)                                  \* line 58
         ELSE [c EXCEPT !.pc[s] = "open", !.pcRef = s,     \* lines 61-62
                        !.audioElementRef = s,             \* lines 64-66
                        !.step[s] = "getUserMedia"]
    [] c.step[s] = "getUserMedia" ->
         IF c.pc[s] # "open"
         THEN catch(c, s)              \* pc.addTrack throws on a closed connection
         ELSE [c EXCEPT !.dc[s] = "connecting",            \* line 75
                        !.dataChannelRef = s,              \* line 76
                        !.step[s] = "createOffer"]
    [] c.step[s] = "createOffer" -> [c EXCEPT !.step[s] = "setLocalDescription"]
    [] c.step[s] = "setLocalDescription" ->
         IF ~secret
         THEN catch(c, s)              \* TypeError reading data.client_secret.value
         ELSE [c EXCEPT !.step[s] = "fetchSdp"]
    [] c.step[s] = "fetchSdp" -> [c EXCEPT !.step[s] = "text"]
    [] c.step[s] = "text" -> [c EXCEPT !.step[s] = "setRemoteDescription"]
    [] c.step[s] = "setRemoteDescription" -> [c EXCEPT !.step[s] = "done"]

\* The awaited promise fulfils.
Resolve(s) ==
  /\ step[s] \in Awaits
  /\ step[s] \in NeedsOpenPc => pc[s] = "open"
  /\ \E ok \in BOOLEAN, secret \in BOOLEAN :
       LET n == resume(Cur, s, ok, secret) IN
       Commit(n, IF n.step[s] = "failed" THEN Ev("catch", s) ELSE Ev("resume", 0))

\* The awaited promise rejects: control goes to the catch block.
Reject(s) ==
  /\ step[s] \in Awaits
  /\ Commit(catch(Cur, s), Ev("catch", s))

(* ------------------------------ data channel ---------------------------- *)

\* An inbound data-channel message: e.data and, when it is a JSON object,
\* the fields the handler reads.
In(data, type, tr, name, arguments, call_id) ==
  [data |-> data, type |-> type, transcript |-> tr, name |-> name,
   arguments |-> arguments, call_id |-> call_id]

FunctionCallDone == "response.function_call_arguments.done"
TranscriptionCompleted == "conversation.item.input_audio_transcription.completed"

\* The message types dc.onmessage compares msg.type with (lines 144-171).
HandledTypes == {"session.created", "response.audio.delta", "response.audio.done",
                 "input_audio_buffer.speech_started", TranscriptionCompleted,
                 FunctionCallDone, "response.done"}

\* Texts of msg.arguments the service is modelled to send.
ArgTexts == {"{", "null", "5", "{}", "{\"effect\":\"\"}",
             "{\"effect\":\"sparkle\"}", "{\"effect\":\"rainbow\"}"}

\* JSON.parse of msg.arguments (line 155): whether it parses, whether the
\* value is null, whether it has an effect member and that member (a number
\* parses and has no members).
JSONparse(text) ==
  CASE text = "{"    -> [ok |-> FALSE, null |-> FALSE, has |-> FALSE, effect |-> ""]
    [] text = "null" -> [ok |-> TRUE, null |-> TRUE, has |-> FALSE, effect |-> ""]
    [] text = "5"    -> [ok |-> TRUE, null |-> FALSE, has |-> FALSE, effect |-> ""]
    [] text = "{}"   -> [ok |-> TRUE, null |-> FALSE, has |-> FALSE, effect |-> ""]
    [] text = "{\"effect\":\"\"}" ->
                        [ok |-> TRUE, null |-> FALSE, has |-> TRUE, effect |-> ""]
    [] text = "{\"effect\":\"sparkle\"}" ->
                        [ok |-> TRUE, null |-> FALSE, has |-> TRUE, effect |-> "sparkle"]
    [] text = "{\"effect\":\"rainbow\"}" ->
                        [ok |-> TRUE, null |-> FALSE, has |-> TRUE, effect |-> "rainbow"]

\* JSON.stringify({ success: true, effect: args.effect }) (line 166): an
\* undefined member is left out.
JSONstringify(args) ==
  IF args.has
  THEN "{\"success\":true,\"effect\":\"" \o args.effect \o "\"}"
  ELSE "{\"success\":true}"

\* The two status messages of a session that is being answered.
FirstMessages ==
  {In("object", t, "", "", "", "") : t \in {"session.created", "response.audio.delta"}}

\* Messages that only move the status display.
StatusMessages ==
  {In("object", t, "", "", "", "") :
     t \in {"session.created", "response.audio.delta", "response.audio.done",
            "input_audio_buffer.speech_started"}}

\* The messages that carry a transcript, and one that carries none.
TranscriptMessages ==
  {In("object", TranscriptionCompleted, "balloons", "", "", "")}
  \union {In("object", "response.done", t, "", "", "") : t \in {"", "What do you see?"}}

\* The messages the service is modelled to send.
Inbound ==
  StatusMessages
  \union {In("invalid", "", "", "", "", ""), In("null", "", "", "", "", ""),
          In("object", "rate_limits.updated", "", "", "", "")}
  \union {In("object", TranscriptionCompleted, "balloons", "", "", "")}
  \union {In("object", "response.done", t, "", "", "") : t \in {"", "What do you see?"}}
  \union {In("object", FunctionCallDone, "", "add_effect_to_image", a, "call_1") :
            a \in ArgTexts}
  \union {In("object", FunctionCallDone, "", "get_weather", a, "call_2") :
            a \in {"null", "{\"effect\":\"sparkle\"}"}}

\* The status a message type sets (lines 144-151); "" for the types that
\* set none.
aiStateFor_DoneSpeaks(type) ==
  CASE type \in {"session.created", "input_audio_buffer.speech_started"} -> "listening"
    [] type \in {"response.audio.delta", "response.audio.done"} -> "speaking"
    [] OTHER -> ""

\* aiStateFor as it would be if the end of a response showed 'thinking'
aiStateFor_Thinking(type) ==
  CASE type \in {"session.created", "response.audio.done",
                 "input_audio_buffer.speech_started"} -> "listening"
    [] type = "response.audio.delta" -> "speaking"
    [] type = "response.done" -> "thinking"
    [] OTHER -> ""

aiStateFor(type) ==
  CASE type \in {"session.created", "response.audio.done",
                 "input_audio_buffer.speech_started"} -> "listening"
    [] type = "response.audio.delta" -> "speaking"
    [] OTHER -> ""

\* The tool-call branch as it would be without the trailing response.create
toolCall_NoResponseCreate(m) ==
  LET args == JSONparse(m.arguments) IN
  IF ~args.ok \/ args.null
  THEN <<>>
  ELSE (IF m.name = "add_effect_to_image" /\ args.has /\ args.effect # ""
        THEN <<Effect("setImageEffect", args.effect, NoOut),
               Effect("setTimeout", "none", NoOut)>>
        ELSE <<>>)
       \o <<Effect("send", "",
                   Out("conversation.item.create", "function_call_output",
                       m.call_id, JSONstringify(args)))>>

\* The branch for 'response.function_call_arguments.done' (lines 154-170)
toolCall(m) ==
  LET args == JSONparse(m.arguments) IN
  IF ~args.ok \/ args.null
  THEN <<>>  \* JSON.parse throws (155); args.effect of null throws (156, 166)
  ELSE (IF m.name = "add_effect_to_image" /\ args.has /\ args.effect # ""
        THEN <<Effect("setImageEffect", args.effect, NoOut),
               Effect("setTimeout", "none", NoOut)>>
        ELSE <<>>)
       \o <<Effect("send", "",
                   Out("conversation.item.create", "function_call_output",
                       m.call_id, JSONstringify(args))),
            Effect("send", "", ResponseCreate)>>

\* dc.onmessage (lines 139-180) as the list of side effects it performs for
\* message m, in order; an exception thrown inside the try ends the list.
onmessage(m) ==
  IF m.data # "object"
  THEN <<>>       \* JSON.parse throws, or reading msg.type of null throws
  ELSE
  CASE aiStateFor(m.type) # "" ->
         <<Effect("setAIState", aiStateFor(m.type), NoOut)>>
    [] m.type = TranscriptionCompleted ->
         <<Effect("setTranscript", "You: " \o m.transcript, NoOut)>>
    [] m.type = FunctionCallDone -> toolCall(m)
    [] m.type = "response.done" ->
         IF m.transcript # ""
         THEN <<Effect("setTranscript", "AI: " \o m.transcript, NoOut)>>
         ELSE <<>>
    [] OTHER -> <<>>

\* dc.onopen as it would be if it asked for a response before configuring
\* the session
onopen_ResponseFirst ==
  <<Effect("send", "", ResponseCreate), Effect("send", "", SessionUpdate),
    Effect("send", "", OpeningItem)>>

\* dc.onopen (lines 78-137)
onopen == <<Effect("send", "", SessionUpdate), Effect("send", "", OpeningItem),
            Effect("send", "", ResponseCreate)>>

\* perform as it would be if a new transcript line were put first
perform_Prepends(c, s, e) ==
  CASE e.op = "setAIState"     -> [c EXCEPT !.aiState = e.val]
    [] e.op = "setTranscript"  -> [c EXCEPT !.transcript = <<e.val>> \o @]
    [] e.op = "setImageEffect" -> [c EXCEPT !.imageEffect = e.val]
    [] e.op = "setTimeout"     -> [c EXCEPT !.timeouts = @ + 1]
    [] e.op = "send"           -> [c EXCEPT !.sent[s] = Append(@, e.msg)]

\* One side effect of a handler of session s's data channel, applied.
perform(c, s, e) ==
  CASE e.op = "setAIState"     -> [c EXCEPT !.aiState = e.val]
    [] e.op = "setTranscript"  -> [c EXCEPT !.transcript = Append(@, e.val)]
    [] e.op = "setImageEffect" -> [c EXCEPT !.imageEffect = e.val]
    [] e.op = "setTimeout"     -> [c EXCEPT !.timeouts = @ + 1]
    [] e.op = "send"           -> [c EXCEPT !.sent[s] = Append(@, e.msg)]

RECURSIVE performAll(_, _, _)
performAll(c, s, es) ==
  IF es = <<>> THEN c ELSE performAll(perform(c, s, Head(es)), s, Tail(es))

Count(es, op) == Cardinality({i \in 1..Len(es) : es[i].op = op})

\* The logs of the model have room for what the handler is about to add.
Fits(s, es) ==
  /\ Len(sent[s]) + Count(es, "send") <= MaxSent
  /\ Len(transcript) + Count(es, "setTranscript") <= MaxTranscript
  /\ timeouts + Count(es, "setTimeout") <= MaxTimeouts

\* The data channel of session s opens: the connection is established, which
\* needs the remote description to be set.
DcOpen(s) ==
  /\ step[s] = "done" /\ pc[s] = "open" /\ dc[s] = "connecting"
  /\ Fits(s, onopen)
  /\ Commit(performAll([Cur EXCEPT !.dc[s] = "open"], s, onopen),
            [h |-> "onopen", s |-> s, msg |-> NoIn, effects |-> onopen])

\* A message arrives on the open data channel of session s.
OnMessage(s, m) ==
  /\ dc[s] = "open"
  /\ Fits(s, onmessage(m))
  /\ Commit(performAll(Cur, s, onmessage(m)),
            [h |-> "onmessage", s |-> s, msg |-> m,
             effects |-> onmessage(m)])

\* A timeout of line 158 fires: setImageEffect('none').
EffectTimeout ==
  /\ timeouts > 0
  /\ Commit([Cur EXCEPT !.imageEffect = "none", !.timeouts = @ - 1],
            Ev("timeout", 0))

(* ---------------------------- specifications --------------------------- *)

\* The component with every input it can get is too large to enumerate with
\* a 60-second countdown, so each specification lets the environment do part
\* of what it can do.

\* Sessions: clicks, the promises of startConversation fulfilling and
\* rejecting in any interleaving of up to MaxSessions invocations, the data
\* channel opening and the first status messages, all within the first second of a
\* countdown (the interval is scheduled but does not fire).
Next ==
  \/ StartClick(MaxSessions)
  \/ StopClick
  \/ \E s \in Sessions : Resolve(s)
  \/ \E s \in Sessions : Reject(s)
  \/ \E s \in Sessions : DcOpen(s)
  \/ \E s \in Sessions, m \in FirstMessages : OnMessage(s, m)

Spec == Init /\ [][Next]_vars

\* Countdown: the same with the interval firing, for up to MaxSessions - 1
\* invocations at a time.
TimerNext ==
  \/ StartClick(MaxSessions - 1)
  \/ StopClick
  \/ TimerTick
  \/ \E s \in Sessions : Resolve(s)
  \/ \E s \in Sessions : Reject(s)
  \/ \E s \in Sessions : DcOpen(s)
  \/ \E s \in Sessions, m \in StatusMessages : OnMessage(s, m)

TimerSpec == Init /\ [][TimerNext]_vars

\* The interval timer keeps firing while it is scheduled.
FairSpec == TimerSpec /\ WF_vars(TimerTick)

\* Dispatch: one session at a time, with every message of Inbound and the
\* image-effect timeouts, within the first second of the countdown.
DispatchNext ==
  \/ StartClick(1)
  \/ StopClick
  \/ \E s \in Sessions : Resolve(s)
  \/ \E s \in Sessions : Reject(s)
  \/ \E s \in Sessions : DcOpen(s)
  \/ \E s \in Sessions, m \in Inbound : OnMessage(s, m)
  \/ EffectTimeout

DispatchSpec == Init /\ [][DispatchNext]_vars

\* Transcript: one session at a time with the countdown firing, the first
\* status message and the messages that carry a transcript.
TranscriptNext ==
  \/ StartClick(1)
  \/ StopClick
  \/ TimerTick
  \/ \E s \in Sessions : Resolve(s)
  \/ \E s \in Sessions : Reject(s)
  \/ \E s \in Sessions : DcOpen(s)
  \/ \E s \in Sessions,
        m \in TranscriptMessages \union {In("object", "session.created", "", "", "", "")} :
          OnMessage(s, m)

TranscriptSpec == Init /\ [][TranscriptNext]_vars

TypeOK ==
  /\ aiState \in {"idle", "connecting", "listening", "thinking", "speaking"}
  /\ timeRemaining \in 0..CONVERSATION_DURATION
  /\ isActive \in BOOLEAN
  /\ Len(transcript) <= MaxTranscript
  /\ timeouts \in 0..MaxTimeouts
  /\ pcRef \in 0..MaxSessions /\ dataChannelRef \in 0..MaxSessions
  /\ audioElementRef \in 0..MaxSessions
  /\ \A s \in Sessions : step[s] \in Awaits \union {"none", "done", "failed"}
  /\ pcRef # 0 => pc[pcRef] = "open"
  /\ dataChannelRef # 0 => dc[dataChannelRef] \in {"connecting", "open"}
  /\ audioElementRef # 0 => pc[audioElementRef] # "none"
  /\ Cardinality(intervals) <= 1

(* ------------------------------ what is shown --------------------------- *)

\* getStateText, lines 239-247
getStateText(state) ==
  CASE state = "listening"  -> "Listening to you..."
    [] state = "thinking"   -> "Thinking..."
    [] state = "speaking"   -> "Speaking..."
    [] state = "connecting" -> "Connecting..."
    [] OTHER                -> "Press Start to begin!"

\* The texts of the page that depend on the state: the status (line 329),
\* the button (lines 347-363) and the placeholder of the conversation panel
\* (lines 372-373).
DisplayedText(c) ==
  <<getStateText(c.aiState),
    IF c.isActive THEN "Stop" ELSE "Start Talking!",
    IF Len(c.transcript) = 0
    THEN "Start the conversation to see what you talk about!" ELSE "">>

OpenPcs == {s \in Sessions : pc[s] = "open"}

(* -------------------------------- claims -------------------------------- *)

\* C1: every started session is time-limited to one minute: a countdown tick
\* decreases timeRemaining by exactly 1, and with the interval firing fairly
\* every state with isActive = TRUE is eventually followed by a state with
\* isActive = FALSE, aiState = "idle" and no peer connection open.
C1_SessionEndsClosed ==
  /\ [][event'.h = "tick" => timeRemaining' = timeRemaining - 1]_vars
  /\ isActive ~> (~isActive /\ aiState = "idle" /\ OpenPcs = {})

\* C2: every tool call is acknowledged: the handler run for a
\* 'response.function_call_arguments.done' message sends, on the same data
\* channel, a function_call_output item with the call_id of the message and
\* then 'response.create', whatever the name and the arguments are.
C2_ToolCallAcknowledged ==
  [][(event'.h = "onmessage" /\ event'.msg.data = "object"
        /\ event'.msg.type = FunctionCallDone)
     => \E out \in {JSONstringify(JSONparse(a)) : a \in ArgTexts \ {"{", "null"}}
                   \union {""} :
          sent'[event'.s] =
            sent[event'.s]
              \o <<Out("conversation.item.create", "function_call_output",
                       event'.msg.call_id, out),
                   ResponseCreate>>]_vars

\* C3: a failed start resets to idle: whenever an invocation of
\* startConversation leaves its awaits without completing (a promise rejected,
\* the response was not OK, or the code after an await threw), the state it
\* leaves is aiState = "idle" and isActive = FALSE, and the invocation has
\* ended in its catch block.
C3_FailedStartIdle ==
  [][\A s \in Sessions :
       (step[s] \in Awaits /\ step'[s] \notin Awaits \union {"done"})
       => /\ aiState' = "idle"
          /\ ~isActive'
          /\ step'[s] \in {"failed", "none"}
          /\ event'.h = "catch" /\ event'.s = s]_vars

\* C3 witness: an invocation failed after its peer connection was created,
\* while another one was still under way.
C3_Witness ==
  /\ event.h = "catch"
  /\ step[event.s] = "failed" /\ pc[event.s] = "open"
  /\ \E t \in Sessions : step[t] \in Awaits
  /\ aiState = "idle" /\ ~isActive

\* C4: stopConversation closes the connection and resets state from any state:
\* called in any reachable state, it closes the peer connection and the data
\* channel the refs held, leaves pcRef, dataChannelRef, audioElementRef and
\* timerRef null, aiState = "idle", isActive = FALSE and timeRemaining = 60,
\* and a second call changes nothing further; and the state a Stop click
\* leaves is that state.
C4_StopResets ==
  LET a == stopConversation(Cur)
      r == Render(Cur, a)
  IN  /\ pcRef # 0 => a.pc[pcRef] = "closed"
      /\ dataChannelRef # 0 => a.dc[dataChannelRef] = "closed"
      /\ r.pcRef = 0 /\ r.dataChannelRef = 0
      /\ r.audioElementRef = 0 /\ r.timerRef = 0
      /\ r.intervals = {}
      /\ r.aiState = "idle" /\ ~r.isActive
      /\ r.timeRemaining = CONVERSATION_DURATION
      /\ Render(r, stopConversation(r)) = r
      /\ event.h = "stop"
         => /\ pcRef = 0 /\ dataChannelRef = 0 /\ audioElementRef = 0
            /\ timerRef = 0 /\ intervals = {}
            /\ aiState = "idle" /\ ~isActive
            /\ timeRemaining = CONVERSATION_DURATION

\* C4 witness: Stop was clicked while a start was awaiting with its
\* connection and data channel created, which are now closed.
C4_Witness ==
  /\ event.h = "stop"
  /\ \E s \in Sessions : step[s] \in Awaits /\ pc[s] = "closed" /\ dc[s] = "closed"


\* C5: a tool call shows its effect for 2 seconds: handling an
\* 'add_effect_to_image' call with a non-empty effect e leaves
\* imageEffect = e, and an effect on display is cleared only by the timeout
\* of the call that set it, never by the timeout of an earlier call (that is,
\* never while a later timeout is still pending).
C5_EffectLastsTwoSeconds ==
  [][/\ (event'.h = "onmessage" /\ Count(event'.effects, "setImageEffect") = 1)
        => imageEffect' = JSONparse(event'.msg.arguments).effect
     /\ (timeouts' = timeouts - 1 /\ imageEffect # "none") => timeouts = 1]_vars

\* What a component shows in which no session has ended.
InitialText ==
  <<"Press Start to begin!", "Start Talking!",
    "Start the conversation to see what you talk about!">>

\* C6: when the one-minute timer expires the user is shown an end message:
\* the texts displayed in the state the expiring tick leaves differ from those
\* of a component in which no session has ended.
C6_EndMessageShown ==
  event.h = "expire" => DisplayedText(Cur) # InitialText

\* C7: there is one peer connection object: at most one RTCPeerConnection
\* created by the component is open, and none is open while isActive is FALSE.
C7_OnePeerConnection ==
  /\ Cardinality(OpenPcs) <= 1
  /\ ~isActive => OpenPcs = {}

\* C8 as stated: every recognized message type causes exactly one side effect.
C8_OneSideEffect ==
  (event.h = "onmessage" /\ event.msg.data = "object"
     /\ event.msg.type \in HandledTypes)
  => Len(event.effects) = 1

\* C8 as amended: the side effects of a recognized message type are fixed by
\* the type but are not always one.  A status type makes one setAIState call
\* and a transcription one transcript line; 'response.done' adds one
\* transcript line if it carries a transcript and does nothing otherwise; a
\* tool call sends two messages, after one setImageEffect call and one
\* scheduled reset if it is add_effect_to_image with a non-empty effect, and
\* does nothing at all if its arguments are not valid JSON or are JSON null.
\* Nothing else of the component changes.
C8_SideEffectsPerType ==
  [][(event'.h = "onmessage" /\ event'.msg.data = "object"
        /\ event'.msg.type \in HandledTypes)
     => LET m == event'.msg
            es == event'.effects
            s == event'.s
            args == JSONparse(m.arguments)
        IN  /\ UNCHANGED <<isActive, timeRemaining, pcRef, dataChannelRef,
                           audioElementRef, timerRef, intervals, step, pc, dc>>
            /\ \A t \in Sessions \ {s} : sent'[t] = sent[t]
            /\ Len(sent'[s]) = Len(sent[s]) + Count(es, "send")
            /\ Len(transcript') = Len(transcript) + Count(es, "setTranscript")
            /\ timeouts' = timeouts + Count(es, "setTimeout")
            /\ Count(es, "setImageEffect") = 0 => imageEffect' = imageEffect
            /\ Count(es, "setAIState") = 0 => aiState' = aiState
            /\ CASE aiStateFor(m.type) # "" ->
                      Len(es) = 1 /\ Count(es, "setAIState") = 1
                 [] m.type = TranscriptionCompleted ->
                      Len(es) = 1 /\ Count(es, "setTranscript") = 1
                 [] m.type = "response.done" ->
                      /\ Len(es) = Count(es, "setTranscript")
                      /\ Len(es) = IF m.transcript = "" THEN 0 ELSE 1
                 [] m.type = FunctionCallDone ->
                      /\ Count(es, "send") = IF args.ok /\ ~args.null THEN 2 ELSE 0
                      /\ Count(es, "setImageEffect") =
                           IF /\ args.ok /\ ~args.null
                              /\ m.name = "add_effect_to_image"
                              /\ args.has /\ args.effect # ""
                           THEN 1 ELSE 0
                      /\ Count(es, "setTimeout") = Count(es, "setImageEffect")
                      /\ Len(es) = Count(es, "send") + 2 * Count(es, "setImageEffect")]_vars

\* C8 witness: a tool call that set an effect, scheduled its reset and sent
\* its two messages.
C8_Witness ==
  /\ event.h = "onmessage" /\ event.msg.type = FunctionCallDone
  /\ Len(event.effects) = 4
  /\ imageEffect = "sparkle" /\ timeouts = 1 /\ Len(sent[event.s]) = 5

\* C9: the status follows the inbound message type and nothing else:
\* 'session.created', 'response.audio.done' and
\* 'input_audio_buffer.speech_started' leave aiState = "listening",
\* 'response.audio.delta' leaves "speaking", no other message changes
\* aiState, and a message that is not a JSON object or whose type is not
\* handled changes no state, schedules nothing and sends nothing.
C9_StatusFollowsType ==
  [][event'.h = "onmessage"
     => LET m == event'.msg IN
        /\ (m.data = "object"
              /\ m.type \in {"session.created", "response.audio.done",
                             "input_audio_buffer.speech_started"})
           => aiState' = "listening"
        /\ (m.data = "object" /\ m.type = "response.audio.delta")
           => aiState' = "speaking"
        /\ (m.data # "object"
              \/ m.type \notin {"session.created", "response.audio.done",
                                "input_audio_buffer.speech_started",
                                "response.audio.delta"})
           => aiState' = aiState
        /\ (m.data # "object" \/ m.type \notin HandledTypes)
           => /\ UNCHANGED <<aiState, isActive, timeRemaining, transcript,
                             imageEffect, timeouts, sent, pcRef, dataChannelRef,
                             audioElementRef, timerRef, intervals, step, pc, dc>>
              /\ event'.effects = <<>>]_vars

\* C9 witness: a message that is not valid JSON arrived while the status was
\* "speaking" with a transcript line and an effect on display.
C9_Witness ==
  /\ event.h = "onmessage" /\ event.msg.data = "invalid"
  /\ aiState = "speaking" /\ transcript # <<>> /\ imageEffect # "none"

\* C10: the AI starts the conversation: when a data channel opens the client
\* sends 'session.update', the opening 'conversation.item.create' and
\* 'response.create', in this order, and whatever a data channel has been
\* sent starts with these three.
C10_OpeningMessagesFirst ==
  /\ event.h = "onopen" => sent[event.s] = <<SessionUpdate, OpeningItem, ResponseCreate>>
  /\ \A s \in Sessions :
       /\ dc[s] = "open" => Len(sent[s]) >= 3
       /\ sent[s] # <<>>
          => /\ Len(sent[s]) >= 3
             /\ SubSeq(sent[s], 1, 3) = <<SessionUpdate, OpeningItem, ResponseCreate>>
             /\ \A i \in 4..Len(sent[s]) : sent[s][i].type # "session.update"

\* C10 witness: a tool call was acknowledged on a data channel after its
\* three opening messages.
C10_Witness ==
  \E s \in Sessions :
    /\ Len(sent[s]) = 5
    /\ sent[s][4].item = "function_call_output"


\* C11: the transcript is an append-only list within a session:
\* startConversation empties it, a transcription message appends the line
\* "You: <transcript>", a 'response.done' message with a non-empty transcript
\* appends the line "AI: <transcript>", and no other step (another message,
\* a timer tick, stopConversation, the catch of a failed start) changes it.
C11_TranscriptAppendOnly ==
  [][LET m == event'.msg
         you == /\ event'.h = "onmessage" /\ m.data = "object"
                /\ m.type = TranscriptionCompleted
         ai ==  /\ event'.h = "onmessage" /\ m.data = "object"
                /\ m.type = "response.done" /\ m.transcript # ""
     IN  /\ event'.h = "start" => transcript' = <<>>
         /\ you => transcript' = Append(transcript, "You: " \o m.transcript)
         /\ ai => transcript' = Append(transcript, "AI: " \o m.transcript)
         /\ (event'.h # "start" /\ ~you /\ ~ai) => transcript' = transcript]_vars

\* C11 witness: two lines, in the order their messages arrived, are still
\* there after the timer ticked and Stop was clicked.
C11_Witness ==
  /\ event.h = "stop"
  /\ transcript = <<"AI: What do you see?", "You: balloons">>

\* C12: inactive is exactly idle: in every reachable state isActive is false
\* if and only if aiState is 'idle', also when Stop or the expiry comes while
\* a start is pending and when messages are delivered after the stop.
C12_InactiveIffIdle ==
  ~isActive <=> aiState = "idle"

\* C13: there is a single countdown timer: at most one countdown interval is
\* scheduled, none is scheduled while isActive is false, 0 <= timeRemaining
\* <= 60, and timeRemaining changes only by startConversation (to 60), by
\* stopConversation (to 60) or by a tick of the scheduled interval (by -1;
\* the last tick, which finds 1, leaves the 0 it returns or the 60 of the
\* stopConversation it calls).
C13_SingleCountdownTimer ==
  /\ [](/\ Cardinality(intervals) <= 1
        /\ ~isActive => intervals = {}
        /\ timeRemaining \in 0..CONVERSATION_DURATION)
  /\ [][timeRemaining' # timeRemaining =>
          \/ event'.h = "start" /\ timeRemaining' = CONVERSATION_DURATION
          \/ event'.h = "stop" /\ timeRemaining' = CONVERSATION_DURATION
          \/ /\ event'.h = "tick" /\ intervals = {timerRef}
             /\ timeRemaining' = timeRemaining - 1
          \/ /\ event'.h = "expire" /\ intervals = {timerRef}
             /\ timeRemaining = 1
             /\ timeRemaining' \in {0, CONVERSATION_DURATION}]_vars

\* C13 witness: the one interval of a running session has brought the
\* countdown down to its last second and is scheduled once more.
C13_Witness ==
  /\ event.h = "tick" /\ isActive
  /\ timeRemaining = 1
  /\ Cardinality(intervals) = 1

\* C14: whenever no session is active the countdown shows the full minute:
\* isActive = false implies timeRemaining = 60, whether the session ended by
\* Stop, by expiry or by a start that failed after some ticks.
C14_InactiveShowsFullMinute ==
  ~isActive => timeRemaining = CONVERSATION_DURATION

\* C15: the displayed image effect is always one of the four declared
\* values: imageEffect is 'none', 'sparkle', 'heart' or 'star' in every
\* reachable state, whatever tool-call messages the service sends.
C15_DeclaredEffectsOnly ==
  imageEffect \in {"none", "sparkle", "heart", "star"}

\* C16: the declared AI state 'thinking' is unreachable: aiState is 'idle',
\* 'connecting', 'listening' or 'speaking' in every reachable state and the
\* status text 'Thinking...' is never displayed; 'connecting' is entered only
\* by startConversation and left only by a 'session.created', audio or
\* speech message, by the catch of a failed start or by stopConversation.
C16_ThinkingUnreachable ==
  /\ [](/\ aiState \in {"idle", "connecting", "listening", "speaking"}
        /\ getStateText(aiState) # "Thinking...")
  /\ [][/\ (aiState # "connecting" /\ aiState' = "connecting")
           => event'.h = "start"
        /\ (aiState = "connecting" /\ aiState' # "connecting")
           => \/ event'.h \in {"catch", "stop"}
              \/ /\ event'.h = "onmessage" /\ event'.msg.data = "object"
                 /\ event'.msg.type \in {"session.created", "response.audio.delta",
                                         "response.audio.done",
                                         "input_audio_buffer.speech_started"}]_vars

\* C16 witness: the first audio of the AI has taken the status of a running
\* session from 'connecting' to 'speaking' before anything else was received.
C16_Witness ==
  /\ event.h = "onmessage" /\ event.msg.type = "response.audio.delta"
  /\ isActive /\ aiState = "speaking"
  /\ transcript = <<>> /\ Len(sent[event.s]) = 3

====
